---- MODULE Spec2Model ----
(***************************************************************************)
(* Model of client_auth::AuthToken (src/src/lib.rs): an OAuth2 client      *)
(* credentials token cache.  AuthToken::new performs the first exchange,   *)
(* AuthToken::token returns the cached token and refreshes it when it is   *)
(* within 15 seconds of expiry.                                            *)
(*                                                                         *)
(* Time is counted in ticks of 1/TicksPerSec second, so that the           *)
(* truncation done by Duration::as_secs is visible.  A SystemTime is the   *)
(* number of ticks since the epoch, a Duration a number of ticks.          *)
(***************************************************************************)
EXTENDS Integers, Sequences, FiniteSets, TLC

\* ---------------------------------------------------------------- bounds
TicksPerSec == 2        \* clock resolution of the model
MaxExchanges == 3       \* exchange requests sent in one behaviour
MaxCalls == 3           \* token() calls in one behaviour
MaxMoves == 2           \* clock movements in one behaviour

\* ------------------------------------------------------ program constants
SAFETY_MARGIN == 15     \* lib.rs:77, the literal 15 (seconds)
DEFAULT_EXPIRY == 300   \* lib.rs:71 and lib.rs:89, Duration::from_secs(300)

\* Duration::from_secs
from_secs(s) == s * TicksPerSec

\* Duration::as_secs: whole seconds, the sub-second part is dropped
as_secs(d) == d \div TicksPerSec

\* ------------------------------------------------------------ environment
\* expires_in values (seconds) the token endpoint may send; None = absent
None == 0 - 1
ExpiresInSecs == {0, 10, 15, 16, 100}
ExpiresInOpt == ExpiresInSecs \cup {None}

\* clock movements, in ticks: one tick, then whole seconds
Advance == {1, from_secs(1), from_secs(5), from_secs(85), from_secs(285)}
Regress == {from_secs(5)}

Endpoint == {"valid", "malformed"}

\* responses of the token endpoint to request number n: an error, or a
\* fresh access token (named by the request number) with optional expiry
Responses(n) ==
    {[ok |-> FALSE, access_token |-> 0, expires_in |-> None]}
    \cup {[ok |-> TRUE, access_token |-> n, expires_in |-> e] : e \in ExpiresInOpt}

Idle == [st |-> "idle"]

VARIABLES
    pc,               \* "start", "new_await", "ready", "token_await", "panicked"
    now,              \* SystemTime::now(), the wall clock
    token,            \* AuthToken.token
    issued_at,        \* AuthToken.issued_at
    expires_in,       \* AuthToken.expires_in (a Duration)
    net,              \* the exchange request in flight, if any
    overflow_checks,  \* build profile: are integer overflow checks compiled in
    auth_endpoint,    \* argument of new()
    token_endpoint,   \* argument of new()
    exchanges,        \* exchange requests sent so far (call count of the exchanger)
    ret,              \* how the last new()/token() call ended
    pre,              \* the fields and counters at entry of the last token() call
    calls,            \* token() calls made
    stale_calls,      \* token() calls made while elapsed >= valid_for - margin
    latest,           \* the last successful response a call received, and when
    moves             \* clock movements made

vars == <<pc, now, token, issued_at, expires_in, net, overflow_checks,
          auth_endpoint, token_endpoint, exchanges, ret, pre, calls,
          stale_calls, latest, moves>>

fields == <<token, issued_at, expires_in>>
inputs == <<overflow_checks, auth_endpoint, token_endpoint>>

\* how a call ended: kind is "instance" (new returned Self), "token" (token
\* returned a String), "panic" (an unwrap or an overflow check failed) or
\* "dropped"; why is the cause; expiry is the expires_in of the response the
\* call consumed; moves is the clock movement count at that instant
Outcome(op, kind, tok, why, expiry) ==
    [op |-> op, kind |-> kind, tok |-> tok, why |-> why, expiry |-> expiry,
     moves |-> moves]

NoRet == [op |-> "none", kind |-> "none", tok |-> 0, why |-> "none",
          expiry |-> None, moves |-> 0]
NoLatest == [access_token |-> 0, expires_in |-> None, served_at |-> 0,
             received_at |-> 0]
NoPre == [token |-> 0, issued_at |-> 0, expires_in |-> 0, exchanges |-> 0,
          now |-> 0, stale |-> FALSE]

\* ------------------------------------------------------------ u64 arithmetic
\* A u64 is represented by its two's complement value: v < 2^63 by v itself,
\* v >= 2^63 by v - 2^64.  Every quantity of the model is far below 2^63.
wrapping_sub(a, b) == a - b

\* a - b on u64 leaves the range
sub_overflows(a, b) == a < b

\* unsigned a >= b on the two's complement representatives
unsigned_ge(a, b) == IF (a < 0) = (b < 0) THEN a >= b ELSE a < 0

\* a fallback equal to the safety margin instead of 300 seconds
unwrap_or_margin(e) == IF e = None THEN from_secs(SAFETY_MARGIN) ELSE from_secs(e)

\* the expiry of the response ignored: always 300 seconds
unwrap_or_ignored(e) == from_secs(DEFAULT_EXPIRY)

\* token_response.expires_in().unwrap_or(Duration::from_secs(300))
unwrap_or_default(e) == IF e = None THEN from_secs(DEFAULT_EXPIRY) ELSE from_secs(e)

\* SystemTime::elapsed: Ok(now - t) when the clock has not gone back past t
elapsed_ok(t) == now >= t
elapsed(t) == now - t

Init ==
    /\ pc = "start"
    /\ now = 0
    /\ token = 0
    /\ issued_at = 0
    /\ expires_in = 0
    /\ net = Idle
    /\ overflow_checks \in BOOLEAN
    /\ auth_endpoint \in Endpoint
    /\ token_endpoint \in Endpoint
    /\ exchanges = 0
    /\ ret = NoRet
    /\ pre = NoPre
    /\ calls = 0
    /\ stale_calls = 0
    /\ latest = NoLatest
    /\ moves = 0

Panic(op, why) ==
    /\ pc' = "panicked"
    /\ ret' = Outcome(op, "panic", 0, why, None)

\* request_async(async_http_client): the request leaves, the caller suspends
SendRequest ==
    /\ net' = [st |-> "sent"]
    /\ exchanges' = exchanges + 1

\* the record of a successful response m taken off the wire at this instant
Received(m) ==
    [access_token |-> m.resp.access_token, expires_in |-> m.resp.expires_in,
     served_at |-> m.served_at, received_at |-> now]

\* AuthToken::new up to the .await: URL parsing, then the request
NewCall ==
    /\ pc = "start"
    /\ IF auth_endpoint = "malformed" \/ token_endpoint = "malformed"
       THEN /\ Panic("new", "url")
            /\ UNCHANGED <<net, exchanges>>
       ELSE /\ pc' = "new_await"
            /\ SendRequest
            /\ UNCHANGED ret
    /\ UNCHANGED <<now, fields, inputs, pre, calls, stale_calls, latest, moves>>

\* the token endpoint answers the request in flight
ServerReply ==
    /\ net.st = "sent"
    /\ \E r \in Responses(exchanges) :
          net' = [st |-> "replied", resp |-> r, served_at |-> now]
    /\ UNCHANGED <<pc, now, fields, inputs, exchanges, ret, pre, calls,
                   stale_calls, latest, moves>>

\* AuthToken::new after the .await
NewResume ==
    /\ pc = "new_await"
    /\ net.st = "replied"
    /\ net' = Idle
    /\ IF net.resp.ok
       THEN /\ token' = net.resp.access_token
            /\ issued_at' = now
            /\ expires_in' = unwrap_or_default(net.resp.expires_in)
            /\ pc' = "ready"
            /\ ret' = Outcome("new", "instance", net.resp.access_token, "constructed",
                              net.resp.expires_in)
            /\ latest' = Received(net)
       ELSE /\ Panic("new", "exchange")
            /\ UNCHANGED <<fields, latest>>
    /\ UNCHANGED <<now, inputs, exchanges, pre, calls, stale_calls, moves>>

\* the cache is Stale: elapsed >= valid_for - margin, in exact arithmetic
Stale == elapsed_ok(issued_at)
         /\ elapsed(issued_at) >= expires_in - from_secs(SAFETY_MARGIN)

\* the comparison written with > instead of >=
NeedsRefreshStrict ==
    LET threshold == wrapping_sub(as_secs(expires_in), SAFETY_MARGIN)
    IN  unsigned_ge(as_secs(elapsed(issued_at)), threshold)
        /\ as_secs(elapsed(issued_at)) # threshold

\* a margin of 16 seconds instead of 15
NeedsRefreshEarly ==
    unsigned_ge(as_secs(elapsed(issued_at)),
                wrapping_sub(as_secs(expires_in), SAFETY_MARGIN + 1))

\* a margin of 14 seconds instead of 15
NeedsRefreshLate ==
    unsigned_ge(as_secs(elapsed(issued_at)),
                wrapping_sub(as_secs(expires_in), SAFETY_MARGIN - 1))

\* the condition of the if in token(), as the machine evaluates it
NeedsRefresh ==
    unsigned_ge(as_secs(elapsed(issued_at)),
                wrapping_sub(as_secs(expires_in), SAFETY_MARGIN))

\* token() callable while an earlier call is suspended (no exclusive borrow)
TokenCallShared ==
    /\ pc \in {"ready", "token_await"}
    /\ calls < MaxCalls
    /\ exchanges < MaxExchanges
    /\ calls' = calls + 1
    /\ stale_calls' = IF Stale THEN stale_calls + 1 ELSE stale_calls
    /\ pre' = [token |-> token, issued_at |-> issued_at, expires_in |-> expires_in,
               exchanges |-> exchanges, now |-> now, stale |-> Stale]
    /\ IF ~elapsed_ok(issued_at)
       THEN /\ Panic("token", "elapsed")
            /\ UNCHANGED <<net, exchanges>>
       ELSE IF sub_overflows(as_secs(expires_in), SAFETY_MARGIN) /\ overflow_checks
       THEN /\ Panic("token", "overflow")
            /\ UNCHANGED <<net, exchanges>>
       ELSE IF NeedsRefresh
       THEN /\ pc' = "token_await"
            /\ SendRequest
            /\ UNCHANGED ret
       ELSE /\ ret' = Outcome("token", "token", token, "cached", None)
            /\ UNCHANGED <<pc, net, exchanges>>
    /\ UNCHANGED <<now, fields, inputs, latest, moves>>

\* issued_at stamped before the request is awaited instead of after
TokenCallStampsEarly ==
    /\ pc = "ready"
    /\ calls < MaxCalls
    /\ exchanges < MaxExchanges
    /\ calls' = calls + 1
    /\ stale_calls' = IF Stale THEN stale_calls + 1 ELSE stale_calls
    /\ pre' = [token |-> token, issued_at |-> issued_at, expires_in |-> expires_in,
               exchanges |-> exchanges, now |-> now, stale |-> Stale]
    /\ IF ~elapsed_ok(issued_at)
       THEN /\ Panic("token", "elapsed")
            /\ UNCHANGED <<net, exchanges, fields>>
       ELSE IF sub_overflows(as_secs(expires_in), SAFETY_MARGIN) /\ overflow_checks
       THEN /\ Panic("token", "overflow")
            /\ UNCHANGED <<net, exchanges, fields>>
       ELSE IF NeedsRefresh
       THEN /\ pc' = "token_await"
            /\ SendRequest
            /\ issued_at' = now
            /\ UNCHANGED <<ret, token, expires_in>>
       ELSE /\ ret' = Outcome("token", "token", token, "cached", None)
            /\ UNCHANGED <<pc, net, exchanges, fields>>
    /\ UNCHANGED <<now, inputs, latest, moves>>

\* AuthToken::token up to the .await, or to its return when nothing is awaited
TokenCall ==
    /\ pc = "ready"
    /\ calls < MaxCalls
    /\ exchanges < MaxExchanges
    /\ calls' = calls + 1
    /\ stale_calls' = IF Stale THEN stale_calls + 1 ELSE stale_calls
    /\ pre' = [token |-> token, issued_at |-> issued_at, expires_in |-> expires_in,
               exchanges |-> exchanges, now |-> now, stale |-> Stale]
    /\ IF ~elapsed_ok(issued_at)
       THEN /\ Panic("token", "elapsed")
            /\ UNCHANGED <<net, exchanges>>
       ELSE IF sub_overflows(as_secs(expires_in), SAFETY_MARGIN) /\ overflow_checks
       THEN /\ Panic("token", "overflow")
            /\ UNCHANGED <<net, exchanges>>
       ELSE IF NeedsRefresh
       THEN /\ pc' = "token_await"
            /\ SendRequest
            /\ UNCHANGED ret
       ELSE /\ ret' = Outcome("token", "token", token, "cached", None)
            /\ UNCHANGED <<pc, net, exchanges>>
    /\ UNCHANGED <<now, fields, inputs, latest, moves>>

\* the refresh with the assignment of issued_at left out
TokenResumeKeepsIssuedAt ==
    /\ pc = "token_await"
    /\ net.st = "replied"
    /\ net' = Idle
    /\ IF net.resp.ok
       THEN /\ token' = net.resp.access_token
            /\ UNCHANGED issued_at
            /\ expires_in' = unwrap_or_default(net.resp.expires_in)
            /\ pc' = "ready"
            /\ ret' = Outcome("token", "token", net.resp.access_token, "refreshed",
                              net.resp.expires_in)
            /\ latest' = Received(net)
       ELSE /\ Panic("token", "exchange")
            /\ UNCHANGED <<fields, latest>>
    /\ UNCHANGED <<now, inputs, exchanges, pre, calls, stale_calls, moves>>

\* the refresh returning the new token without storing it in self.token
TokenResumeKeepsToken ==
    /\ pc = "token_await"
    /\ net.st = "replied"
    /\ net' = Idle
    /\ IF net.resp.ok
       THEN /\ UNCHANGED token
            /\ issued_at' = now
            /\ expires_in' = unwrap_or_default(net.resp.expires_in)
            /\ pc' = "ready"
            /\ ret' = Outcome("token", "token", net.resp.access_token, "refreshed",
                              net.resp.expires_in)
            /\ latest' = Received(net)
       ELSE /\ Panic("token", "exchange")
            /\ UNCHANGED <<fields, latest>>
    /\ UNCHANGED <<now, inputs, exchanges, pre, calls, stale_calls, moves>>

\* AuthToken::token after the .await
TokenResume ==
    /\ pc = "token_await"
    /\ net.st = "replied"
    /\ net' = Idle
    /\ IF net.resp.ok
       THEN /\ token' = net.resp.access_token
            /\ issued_at' = now
            /\ expires_in' = unwrap_or_default(net.resp.expires_in)
            /\ pc' = "ready"
            /\ ret' = Outcome("token", "token", net.resp.access_token, "refreshed",
                              net.resp.expires_in)
            /\ latest' = Received(net)
       ELSE /\ Panic("token", "exchange")
            /\ UNCHANGED <<fields, latest>>
    /\ UNCHANGED <<now, inputs, exchanges, pre, calls, stale_calls, moves>>

\* the future of token() is dropped while it is suspended in the exchange
TokenDrop ==
    /\ pc = "token_await"
    /\ pc' = "ready"
    /\ net' = Idle
    /\ ret' = Outcome("token", "dropped", 0, "none", None)
    /\ UNCHANGED <<now, fields, inputs, exchanges, pre, calls, stale_calls, latest,
                   moves>>

\* the wall clock advances
ClockAdvance ==
    /\ pc # "panicked"
    /\ moves < MaxMoves
    /\ \E d \in Advance : now' = now + d
    /\ moves' = moves + 1
    /\ UNCHANGED <<pc, fields, net, inputs, exchanges, ret, pre, calls, stale_calls,
                   latest>>

\* the wall clock is stepped back (SystemTime is not monotonic)
ClockRegress ==
    /\ pc # "panicked"
    /\ moves < MaxMoves
    /\ \E d \in Regress : now >= d /\ now' = now - d
    /\ moves' = moves + 1
    /\ UNCHANGED <<pc, fields, net, inputs, exchanges, ret, pre, calls, stale_calls,
                   latest>>

Next ==
    \/ NewCall
    \/ ServerReply
    \/ NewResume
    \/ TokenCall
    \/ TokenResume
    \/ TokenDrop
    \/ ClockAdvance
    \/ ClockRegress

Spec == Init /\ [][Next]_vars

TypeOK ==
    /\ pc \in {"start", "new_await", "ready", "token_await", "panicked"}
    /\ now \in Nat
    /\ exchanges \in 0..MaxExchanges

\* ------------------------------------------------------------------ claims
Margin == from_secs(SAFETY_MARGIN)

\* token() has just returned a String: no clock movement since the return
AtReturn == ret.op = "token" /\ ret.kind = "token" /\ ret.moves = moves

\* new() has just returned an instance
JustConstructed == ret.op = "new" /\ ret.kind = "instance" /\ ret.moves = moves
                   /\ calls = 0 /\ pc = "ready"

\* the last token() call could read the elapsed time
PreElapsedOk == calls > 0 /\ pre.now >= pre.issued_at
PreElapsed == pre.now - pre.issued_at

\* the fields are what they were when the last token() call began
FieldsAsBefore == /\ token = pre.token
                  /\ issued_at = pre.issued_at
                  /\ expires_in = pre.expires_in

\* C1 - margin invariant: when token() returns a token, the remaining
\* validity issued_at + valid_for - now is at least the 15 second margin,
\* unless the token was issued with valid_for <= 15 seconds.
C1_MarginInvariant ==
    AtReturn => \/ issued_at + expires_in - now >= Margin
                \/ expires_in <= Margin

\* a cached token returned with more than 15 seconds left, some time after issue
C1_Witness ==
    /\ AtReturn /\ ret.why = "cached"
    /\ expires_in > Margin
    /\ now > issued_at

\* C2 - freshness invariant: when token() returns a token, now is before
\* issued_at + valid_for, for every valid_for the server may issue.
C2_Freshness == AtReturn => now < issued_at + expires_in

\* C3 - failure isolation: when the exchange of a token() call fails, the
\* fields are as before the call and the call hands the failure to its
\* caller as an error value, returning no token.
C3_FailureIsolation ==
    (ret.op = "token" /\ ret.why = "exchange") =>
        /\ FieldsAsBefore
        /\ ret.kind = "error"

\* C4 - short-lived token: when the cached valid_for is at most 15 seconds,
\* every token() call performs an exchange.
C4_ShortLivedAlwaysRefreshes ==
    (PreElapsedOk /\ pre.expires_in <= Margin) => exchanges = pre.exchanges + 1

\* C5 - failures are values: a malformed endpoint or a failed exchange ends
\* new() or token() with an error value, never with a panic.
C5_FailuresAreValues ==
    /\ ret.why \in {"url", "exchange"} => ret.kind = "error"
    /\ pc # "panicked"

\* C6 - no redundant exchange: a token() call that finds
\* elapsed < valid_for - 15s performs no exchange, returns the cached token
\* and leaves the fields unchanged.
C6_NoRedundantExchange ==
    (PreElapsedOk /\ PreElapsed < pre.expires_in - Margin) =>
        /\ exchanges = pre.exchanges
        /\ ret.op = "token" /\ ret.kind = "token" /\ ret.tok = pre.token
        /\ FieldsAsBefore

\* a call right after a token with valid_for = 300s was issued
C6_Witness ==
    /\ PreElapsedOk /\ PreElapsed = 0
    /\ pre.expires_in = from_secs(300)
    /\ ret.op = "token" /\ ret.kind = "token"

\* C7 - forced refresh, single attempt: a token() call that finds
\* elapsed >= valid_for - 15s performs exactly one exchange.
C7_ForcedRefreshOnce ==
    (calls > 0 /\ pre.stale) => exchanges = pre.exchanges + 1

\* C8 - refresh returns the new token, and the exchange count is one for
\* the construction plus one per token() call that found the cache stale.
C8_RefreshCount ==
    /\ (ret.op = "token" /\ ret.why = "refreshed" /\ pc = "ready") =>
           (ret.tok = token /\ ret.tok # pre.token /\ ret.tok = exchanges)
    /\ (calls > 0 \/ pc = "ready") => exchanges = 1 + stale_calls

\* C9 - default expiry fallback: after a successful exchange, in new() and
\* in token(), valid_for is 300 seconds when the response has no expiry and
\* the response's expiry otherwise.
C9_DefaultExpiry ==
    (ret.why \in {"constructed", "refreshed"}) =>
        expires_in = IF ret.expiry = None THEN from_secs(300) ELSE from_secs(ret.expiry)

\* a refresh inside token() whose response has no expiry
C9_Witness ==
    /\ ret.why = "refreshed" /\ ret.expiry = None
    /\ expires_in = from_secs(300)
    /\ pre.expires_in # from_secs(300)

\* construction whose response has no expiry
C9_WitnessNew == ret.why = "constructed" /\ ret.expiry = None /\ pc = "ready"

\* C10 as stated - right after every successful construction the cache is
\* Valid, whatever expiry the exchanger returned.
C10_InitialValidAnyExpiry == JustConstructed => ~Stale

\* C10 - right after a successful construction whose response has no expiry
\* or an expiry above 15 seconds, the cache is Valid: elapsed < valid_for - 15s,
\* and a token() call made now would not refresh.
C10_InitialValid ==
    (JustConstructed /\ (ret.expiry = None \/ ret.expiry > SAFETY_MARGIN)) =>
        ~Stale /\ ~NeedsRefresh

\* construction from a response without expiry, after the clock has moved
C10_Witness ==
    JustConstructed /\ ret.expiry = None /\ now > 0 /\ ~Stale

\* an AuthToken exists: new() has returned one
InstanceExists == \/ pc \in {"ready", "token_await"}
                  \/ pc = "panicked" /\ ret.op = "token"

\* C11 - atomic replacement: whenever an instance exists, token, issued_at
\* and valid_for all come from the same exchange response, the last one a
\* call received: its token, the instant it was received, its expiry.
C11_AtomicReplacement ==
    InstanceExists =>
        /\ token = latest.access_token
        /\ issued_at = latest.received_at
        /\ expires_in = IF latest.expires_in = None THEN from_secs(300)
                        ELSE from_secs(latest.expires_in)

\* the fields after a refresh that changed all three of them
C11_Witness ==
    /\ pc = "ready" /\ ret.why = "refreshed"
    /\ token # pre.token
    /\ issued_at # pre.issued_at
    /\ expires_in # pre.expires_in

\* C12 - most recent token: the cached token is always the one of the last
\* successful exchange a call received; it changes only when a newer
\* response is received (tokens are numbered by request), so a failed
\* exchange leaves it alone and no older token comes back.
C12_MostRecentToken ==
    /\ [](InstanceExists => token = latest.access_token)
    /\ [][/\ token' >= token
          /\ (latest' = latest => token' = token)
          /\ (ret'.why = "exchange" => token' = token)]_vars

\* a second refresh: the third token issued is the one cached
C12_Witness ==
    /\ pc = "ready" /\ ret.why = "refreshed"
    /\ exchanges = 3 /\ token = 3

\* a failed refresh after a successful one keeps the refreshed token
C12_WitnessFailure ==
    /\ pc = "panicked" /\ ret.op = "token" /\ ret.why = "exchange"
    /\ token = 2 /\ exchanges = 3

\* C13 - no interleaved refreshes: a token() call starts, and a request is
\* sent, only when no call is suspended and no exchange is in flight.
C13_NoInterleavedRefresh ==
    [][/\ (calls' # calls => pc = "ready" /\ net.st = "idle")
       /\ (exchanges' # exchanges => net.st = "idle")]_vars

\* a call is suspended in its exchange and the bounds would allow another
C13_Witness ==
    /\ pc = "token_await" /\ net.st = "sent"
    /\ calls < MaxCalls /\ exchanges < MaxExchanges

\* C14 - recovery after failure: after a token() call whose refresh failed,
\* the instance is still usable (a later token() call can be made), Stale,
\* and holds the values it had before the call.
C14_UsableAfterFailure ==
    (ret.op = "token" /\ ret.why = "exchange") =>
        /\ pc = "ready"
        /\ Stale
        /\ FieldsAsBefore

\* C15 - clock regression: a token() call made while the clock reads earlier
\* than issued_at completes normally: it returns a token or starts an
\* exchange, it does not abort.
C15_ClockRegressionCompletes ==
    (calls > 0 /\ pre.now < pre.issued_at) => pc # "panicked"

\* C16 - issuance timestamp: the expiry instant of the cache,
\* issued_at + valid_for, is never later than the expiry instant of the
\* server, the instant the server issued the token + expires_in; hence a
\* token of a cache in the Valid state is not yet expired at the server.
C16_CacheExpiryNotLater ==
    InstanceExists =>
        /\ issued_at + expires_in <= latest.served_at + expires_in
        /\ (elapsed_ok(issued_at) /\ ~Stale) => now < latest.served_at + expires_in

\* C17 - whole-second truncation: when a token() call on a token with
\* valid_for >= 15s decides not to refresh, the exact remaining validity
\* valid_for - elapsed, sub-second part included, is more than 15 seconds.
C17_TruncationKeepsMargin ==
    (pc = "ready" /\ ret.why = "cached" /\ pre.expires_in >= Margin) =>
        /\ PreElapsedOk
        /\ pre.expires_in - PreElapsed > Margin

\* a cached token returned when elapsed has a sub-second part
C17_Witness ==
    /\ pc = "ready" /\ ret.why = "cached" /\ pre.expires_in >= Margin
    /\ PreElapsed % TicksPerSec # 0
    /\ as_secs(PreElapsed) = as_secs(pre.expires_in) - SAFETY_MARGIN - 1

\* C18 - cancellation safety: after a token() call was dropped while
\* suspended in its exchange, the fields are what they were before the
\* call, nothing is in flight and the instance is ready; only the exchange
\* count shows the abandoned call.
C18_CancellationSafe ==
    (ret.kind = "dropped" /\ pc = "ready") =>
        /\ FieldsAsBefore
        /\ token = latest.access_token /\ issued_at = latest.received_at
        /\ net = Idle
        /\ exchanges = pre.exchanges + 1

\* a call dropped after the server had answered with a new token, the clock
\* having moved since the call began
C18_Witness ==
    /\ ret.kind = "dropped" /\ pc = "ready"
    /\ now # pre.now
    /\ exchanges = pre.exchanges + 1
====
